---- MODULE Spec2Model ----
(***************************************************************************)
(* A model of ella.to/sqlite: the connection pool (Database.Conn, put,     *)
(* Conn.Done, Conn.Close), the bounded Worker queue and the Migration      *)
(* sequencer.  The engine (zombiezen sqlitex.Pool, sqlite.Conn, Stmt) is   *)
(* the external collaborator: it is modelled by the interface the code     *)
(* calls (Take, Put, Prepare, Finalize, ExecScript).                       *)
(***************************************************************************)
EXTENDS Integers, Sequences, FiniteSets, TLC

(* ------------------------------ bounds --------------------------------- *)
\* pool size N handed to WithPoolSize
PoolSize == 1
\* number of concurrent callers of Database.Conn
NumClients == 2
\* number of distinct SQL texts a caller prepares
NumSql == 1
\* Worker: goroutines, queue capacity, Submit calls
WorkerSize == 2
QueueSize == 1
NumTasks == 4
\* Migration: directory entries and Migration runs
NumFiles == 3
MaxRuns == 2
\* Prepare: number of values handed to one call
MaxParams == 2
\* one Conn: distinct SQL texts, Warmup calls, statements a function runs
NumTexts == 2
MaxWarm == 2
MaxWork == 2
\* New: options handed to one call, largest size handed to WithPoolSize
MaxOpts == 3
MaxSize == 2
\* round trip: width in bits of the stand-in for int64 / uint64
Bits == 4
\* round trip: longest text / byte sequence
MaxLen == 2
\* Placeholders / GroupPlaceholders: largest count, rows, columns
MaxCount == 4
\* one directory listing: entries
MaxEntries == 3
\* statement cache: statements the engine hands out, calls on one Conn
MaxStmts == 3

Conns == 1..PoolSize
Clients == 1..NumClients
Sqls == 1..NumSql
Workers == 1..WorkerSize
Tasks == 1..NumTasks
Files == 1..NumFiles

\* "no connection": the nil *sqlite.Conn
NoConn == 0

VARIABLES
    \* sqlitex.Pool: the free channel, the closed channel
    free, closed,
    \* Database.remaining
    remaining,
    \* per caller: position in Conn()/Done(), the sqlite.Conn of its Conn
    \* wrapper, its context, the last value Conn() returned, Conn.stmts
    pc, conn, ctx, ret, stmts,
    \* per physical connection: the prepared statements alive in the engine
    engine,
    \* Worker.queue (buffered channel), whether it was closed
    queue, qclosed,
    \* per worker goroutine: position in the loop, dequeued task, leased conn
    wpc, wtask, wconn,
    \* per task (one per Submit call): position of the submitter, content of
    \* task.done, number of times task.fn ran
    spc, done, runs,
    \* Migration: the script set, the run in progress, what the database holds
    \* (files: what reading/executing each script does; mret, mfail: result
    \* of the last finished run and the script it failed at; mprev: mfail of
    \* the run before; ranNow: the scripts the current run executed; execd:
    \* completed executions per script; mconn: the connection of RunScript)
    files, mpc, midx, mrun, mret, mfail, mprev, ranNow, execd, mconn,
    \* Conn.Prepare's binding loop: the values of the call, the encodings
    \* bound at positions 1.., what the call returned
    bargs, bbound, bret,
    \* one leased Conn: keys of c.stmts, statements alive in the engine,
    \* statements whose Finalize reports an error, the engine handle, the
    \* statements close() called Finalize on, the last call and its result,
    \* the number of Warmup calls made
    cstmts, clive, cfail, handle, tried, cop, cret, warmCalls,
    \* a function using Save on that Conn: its position, what it deferred,
    \* whether a savepoint is open, work inside the open savepoint, work
    \* committed, work rolled back, whether *err is non-nil
    fpc, deferred, svOpen, pendingW, committedW, rolledW, ferr,
    \* New: the revision of New/WithPoolSize in the build, position, db.size,
    \* whether db.fns / db.prepareConnFn are set, options applied, calls of
    \* WithPoolSize that returned nil, per engine handle: its state, whether
    \* it is leased, whether the functions are registered on it
    rev, npc, nsize, nfns, nhook, nopts, sizeOk, hstate, hleased, hreg,
    \* round trip of one value: the Go value bound, the column the engine
    \* stores, the Go value read back
    rtv, rtcol, rtback,
    \* the last call of Placeholders and the last call of GroupPlaceholders:
    \* its arguments (<<>> before any call), the string it returned
    pargs, pout, gargs, gout,
    \* one Migration over a directory: what ReadDir returned, the sqlFiles
    \* slice, the scripts executed so far in order, position of the run
    listing, sqlFiles, lran, lpc,
    \* the statement cache of one Conn: the revision of conn.go in the
    \* build, whether c.stmts is a made map, c.stmts as key/statement pairs,
    \* Finalize calls per statement, statements handed out by the engine,
    \* statements the caller got from Prepare, statements of Exec calls that
    \* returned, state of the wrapper
    krev, kmap, kcache, kfin, knext, kheld, kexec, kwrap

poolVars == <<free, closed, remaining, pc, conn, ctx, ret, stmts, engine>>
workerVars == <<queue, qclosed, wpc, wtask, wconn, spc, done, runs>>
migVars == <<files, mpc, midx, mrun, mret, mfail, mprev, ranNow, execd, mconn>>
bindVars == <<bargs, bbound, bret>>
connVars == <<cstmts, clive, cfail, handle, tried, cop, cret, warmCalls,
              fpc, deferred, svOpen, pendingW, committedW, rolledW, ferr>>
newVars == <<rev, npc, nsize, nfns, nhook, nopts, sizeOk, hstate, hleased, hreg>>
roundVars == <<rtv, rtcol, rtback>>
placeVars == <<pargs, pout, gargs, gout>>
listVars == <<listing, sqlFiles, lran, lpc>>
cacheVars == <<krev, kmap, kcache, kfin, knext, kheld, kexec, kwrap>>
restVars == <<roundVars, placeVars, listVars, cacheVars>>
extVars == <<bindVars, connVars, newVars, restVars>>
vars == <<free, closed, remaining, pc, conn, ctx, ret, stmts, engine,
          queue, qclosed, wpc, wtask, wconn, spc, done, runs,
          files, mpc, midx, mrun, mret, mfail, mprev, ranNow, execd, mconn,
          bargs, bbound, bret,
          cstmts, clive, cfail, handle, tried, cop, cret, warmCalls,
          fpc, deferred, svOpen, pendingW, committedW, rolledW, ferr,
          rev, npc, nsize, nfns, nhook, nopts, sizeOk, hstate, hleased, hreg,
          rtv, rtcol, rtback, pargs, pout, gargs, gout,
          listing, sqlFiles, lran, lpc,
          krev, kmap, kcache, kfin, knext, kheld, kexec, kwrap>>

(* ------------------- sqlitex.Pool as the code uses it ------------------ *)
\* db.pool.Take(ctx) succeeding with connection k: k leaves the free channel
TakeMutant(k) == k \in free /\ free' = free
Take(k) == k \in free /\ free' = free \ {k}

\* db.pool.Take(ctx) failing: the context is done, or the pool is closed
TakeFails(cx) == cx = "cancelled" \/ closed

\* db.pool.Put(conn)
PoolPut(k) == free' = free \cup {k}

\* atomic.AddInt64(&db.remaining, d)
AddRemaining(d) == remaining' = remaining + d

(* --------------------------- Database.Conn ----------------------------- *)
\* a caller enters Conn(ctx); its context is live or already cancelled
ConnCall(c) ==
    /\ pc[c] = "idle"
    /\ \E cx \in {"live", "cancelled"} : ctx' = [ctx EXCEPT ![c] = cx]
    /\ pc' = [pc EXCEPT ![c] = "take"]
    /\ ret' = [ret EXCEPT ![c] = "none"]
    /\ UNCHANGED <<free, closed, remaining, conn, stmts, engine>>
    /\ UNCHANGED <<workerVars, migVars, extVars>>

\* the context of a caller waiting in Take is cancelled
CancelCtx(c) ==
    /\ pc[c] = "take"
    /\ ctx[c] = "live"
    /\ ctx' = [ctx EXCEPT ![c] = "cancelled"]
    /\ UNCHANGED <<free, closed, remaining, pc, conn, ret, stmts, engine>>
    /\ UNCHANGED <<workerVars, migVars, extVars>>

\* sqlConn, err := db.pool.Take(ctx) with err == nil
ConnTake(c) ==
    /\ pc[c] = "take"
    /\ ~TakeFails(ctx[c])
    /\ \E k \in Conns :
          /\ Take(k)
          /\ conn' = [conn EXCEPT ![c] = k]
    /\ pc' = [pc EXCEPT ![c] = "taken"]
    /\ UNCHANGED <<closed, remaining, ctx, ret, stmts, engine>>
    /\ UNCHANGED <<workerVars, migVars, extVars>>

\* if err != nil { return nil, err }
ConnErrMutant(c) ==
    /\ pc[c] = "take"
    /\ TakeFails(ctx[c])
    /\ pc' = [pc EXCEPT ![c] = "idle"]
    /\ ret' = [ret EXCEPT ![c] = "err"]
    /\ AddRemaining(-1)
    /\ UNCHANGED <<free, closed, conn, ctx, stmts, engine>>
    /\ UNCHANGED <<workerVars, migVars, extVars>>

ConnErr(c) ==
    /\ pc[c] = "take"
    /\ TakeFails(ctx[c])
    /\ pc' = [pc EXCEPT ![c] = "idle"]
    /\ ret' = [ret EXCEPT ![c] = "err"]
    /\ UNCHANGED <<free, closed, remaining, conn, ctx, stmts, engine>>
    /\ UNCHANGED <<workerVars, migVars, extVars>>

\* Conn after a successful Take, without the AddInt64(&db.remaining, -1)
ConnAddMutant(c) ==
    /\ pc[c] = "taken"
    /\ stmts' = [stmts EXCEPT ![c] = {}]
    /\ pc' = [pc EXCEPT ![c] = "held"]
    /\ ret' = [ret EXCEPT ![c] = "ok"]
    /\ UNCHANGED <<free, closed, remaining, conn, ctx, engine>>
    /\ UNCHANGED <<workerVars, migVars, extVars>>

\* conn = &Conn{conn: sqlConn, put: db.put, stmts: make(map[string]*Stmt)};
\* atomic.AddInt64(&db.remaining, -1); return conn, nil
ConnAdd(c) ==
    /\ pc[c] = "taken"
    /\ AddRemaining(-1)
    /\ stmts' = [stmts EXCEPT ![c] = {}]
    /\ pc' = [pc EXCEPT ![c] = "held"]
    /\ ret' = [ret EXCEPT ![c] = "ok"]
    /\ UNCHANGED <<free, closed, conn, ctx, engine>>
    /\ UNCHANGED <<workerVars, migVars, extVars>>

(* ---------------------------- Conn.Prepare ----------------------------- *)
\* stmt, err := c.conn.Prepare(sql); c.stmts[sql] = stmt
Prepare(c, q) ==
    /\ pc[c] = "held"
    /\ engine' = [engine EXCEPT ![conn[c]] = @ \cup {q}]
    /\ stmts' = [stmts EXCEPT ![c] = @ \cup {q}]
    /\ UNCHANGED <<free, closed, remaining, pc, conn, ctx, ret>>
    /\ UNCHANGED <<workerVars, migVars, extVars>>

(* ------------------------ Conn.Done / Database.put --------------------- *)
\* Done of conn.go:32: c.put(c), whose first step is db.pool.Put
Done(c) ==
    /\ pc[c] = "held"
    /\ PoolPut(conn[c])
    /\ pc' = [pc EXCEPT ![c] = "put"]
    /\ UNCHANGED <<closed, remaining, conn, ctx, ret, stmts, engine>>
    /\ UNCHANGED <<workerVars, migVars, extVars>>

\* Done of conn.go:201: finalize every cached statement, return the first
\* error of Finalize without calling put, otherwise c.put(c.conn).  The map
\* is ranged over in any order, so the statements finalized before a
\* failing one are any subset of the others.  After the error return the
\* caller drops its Conn wrapper; the sqlite.Conn stays out of the pool.
DoneFinalize(c) ==
    /\ pc[c] = "held"
    /\ \/ /\ engine' = [engine EXCEPT ![conn[c]] = @ \ stmts[c]]
          /\ PoolPut(conn[c])
          /\ pc' = [pc EXCEPT ![c] = "put"]
          /\ UNCHANGED <<closed, remaining, conn, ctx, ret, stmts>>
       \/ /\ \E bad \in stmts[c] : \E before \in SUBSET (stmts[c] \ {bad}) :
                engine' = [engine EXCEPT ![conn[c]] = @ \ (before \cup {bad})]
          /\ pc' = [pc EXCEPT ![c] = "idle"]
          /\ conn' = [conn EXCEPT ![c] = NoConn]
          /\ stmts' = [stmts EXCEPT ![c] = {}]
          /\ UNCHANGED <<free, closed, remaining, ctx, ret>>
    /\ UNCHANGED <<workerVars, migVars, extVars>>

\* Database.put after pool.Put: atomic.AddInt64(&db.remaining, 1); the
\* caller drops its Conn wrapper
putAdd(c) ==
    /\ pc[c] = "put"
    /\ AddRemaining(1)
    /\ pc' = [pc EXCEPT ![c] = "idle"]
    /\ conn' = [conn EXCEPT ![c] = NoConn]
    /\ stmts' = [stmts EXCEPT ![c] = {}]
    /\ UNCHANGED <<free, closed, ctx, ret, engine>>
    /\ UNCHANGED <<workerVars, migVars, extVars>>

(* --------------------------- Database.Close ---------------------------- *)
\* db.pool.Close(): from now on Take fails
DbClose ==
    /\ ~closed
    /\ closed' = TRUE
    /\ UNCHANGED <<free, remaining, pc, conn, ctx, ret, stmts, engine>>
    /\ UNCHANGED <<workerVars, migVars, extVars>>

(* ------------------------------ pool spec ------------------------------ *)
\* New with WithPoolSize(PoolSize): all connections free, remaining = size
PoolInit ==
    /\ free = Conns
    /\ closed = FALSE
    /\ remaining = PoolSize
    /\ pc = [c \in Clients |-> "idle"]
    /\ conn = [c \in Clients |-> NoConn]
    /\ ctx = [c \in Clients |-> "live"]
    /\ ret = [c \in Clients |-> "none"]
    /\ stmts = [c \in Clients |-> {}]
    /\ engine = [k \in Conns |-> {}]

WorkerIdle ==
    /\ queue = <<>>
    /\ qclosed = FALSE
    /\ wpc = [w \in Workers |-> "recv"]
    /\ wtask = [w \in Workers |-> 0]
    /\ wconn = [w \in Workers |-> NoConn]
    /\ spc = [t \in Tasks |-> "new"]
    /\ done = [t \in Tasks |-> 0]
    /\ runs = [t \in Tasks |-> 0]

MigIdle ==
    /\ files = [f \in Files |-> "ok"]
    /\ mpc = "idle"
    /\ midx = 0
    /\ mrun = 0
    /\ mret = "none"
    /\ mfail = 0
    /\ mprev = 0
    /\ ranNow = {}
    /\ execd = [f \in Files |-> 0]
    /\ mconn = NoConn

\* no Prepare call has bound anything yet
BindIdle ==
    /\ bargs = <<>>
    /\ bbound = <<>>
    /\ bret = "none"

\* a freshly leased Conn whose function has not started
ConnIdle ==
    /\ cstmts = {}
    /\ clive = {}
    /\ cfail = {}
    /\ handle = "open"
    /\ tried = {}
    /\ cop = "none"
    /\ cret = "none"
    /\ warmCalls = 0
    /\ fpc = "start"
    /\ deferred = "none"
    /\ svOpen = FALSE
    /\ pendingW = 0
    /\ committedW = 0
    /\ rolledW = 0
    /\ ferr = FALSE

\* New has not been called
NewIdle ==
    /\ rev = "part_001"
    /\ npc = "opts"
    /\ nsize = 0
    /\ nfns = FALSE
    /\ nhook = FALSE
    /\ nopts = 0
    /\ sizeOk = 0
    /\ hstate = [k \in 1..MaxSize |-> "unopened"]
    /\ hleased = [k \in 1..MaxSize |-> FALSE]
    /\ hreg = [k \in 1..MaxSize |-> FALSE]

\* no value yet: nothing bound, stored or read back
NoValue == [kind |-> "none"]

RestIdle ==
    /\ rtv = NoValue /\ rtcol = NoValue /\ rtback = NoValue
    /\ pargs = <<>> /\ pout = <<>> /\ gargs = <<>> /\ gout = <<>>
    /\ listing = <<>> /\ sqlFiles = <<>> /\ lran = <<>> /\ lpc = "idle"
    /\ krev = "newest" /\ kmap = FALSE /\ kcache = {} /\ knext = 0
    /\ kfin = [i \in 1..MaxStmts |-> 0] /\ kheld = {} /\ kexec = {}
    /\ kwrap = "leased"

Init ==
    PoolInit /\ WorkerIdle /\ MigIdle /\ BindIdle /\ ConnIdle /\ NewIdle
    /\ RestIdle

Next ==
    \/ \E c \in Clients : ConnCall(c)
    \/ \E c \in Clients : CancelCtx(c)
    \/ \E c \in Clients : ConnTake(c)
    \/ \E c \in Clients : ConnErr(c)
    \/ \E c \in Clients : ConnAdd(c)
    \/ \E c \in Clients : \E q \in Sqls : Prepare(c, q)
    \/ \E c \in Clients : Done(c)
    \/ \E c \in Clients : DoneFinalize(c)
    \/ \E c \in Clients : putAdd(c)
    \/ DbClose

Spec == Init /\ [][Next]_vars

(* =============================== Worker ================================ *)
\* Submit with a send that never blocks: the task is appended even when the
\* channel already holds QueueSize tasks
SubmitMutant(t) ==
    /\ spc[t] = "new"
    /\ ~qclosed
    /\ queue' = Append(queue, t)
    /\ spc' = [spc EXCEPT ![t] = "wait"]
    /\ UNCHANGED <<qclosed, wpc, wtask, wconn, done, runs>>
    /\ UNCHANGED <<poolVars, migVars, extVars>>

\* Submit: s.queue <- task (blocks while the buffered channel is full)
Submit(t) ==
    /\ spc[t] = "new"
    /\ ~qclosed
    /\ Len(queue) < QueueSize
    /\ queue' = Append(queue, t)
    /\ spc' = [spc EXCEPT ![t] = "wait"]
    /\ UNCHANGED <<qclosed, wpc, wtask, wconn, done, runs>>
    /\ UNCHANGED <<poolVars, migVars, extVars>>

\* Submit: <-task.done
SubmitReturn(t) ==
    /\ spc[t] = "wait"
    /\ done[t] > 0
    /\ done' = [done EXCEPT ![t] = @ - 1]
    /\ spc' = [spc EXCEPT ![t] = "returned"]
    /\ UNCHANGED <<queue, qclosed, wpc, wtask, wconn, runs>>
    /\ UNCHANGED <<poolVars, migVars, extVars>>

\* Worker.Close: close(s.queue)
WorkerClose ==
    /\ ~qclosed
    /\ qclosed' = TRUE
    /\ UNCHANGED <<queue, wpc, wtask, wconn, spc, done, runs>>
    /\ UNCHANGED <<poolVars, migVars, extVars>>

\* for task := range w.queue: receive the head of the channel
DequeueMutant(w) ==
    /\ wpc[w] = "recv"
    /\ queue # <<>>
    /\ wtask' = [wtask EXCEPT ![w] = Head(queue)]
    /\ queue' = queue
    /\ wpc' = [wpc EXCEPT ![w] = "conn"]
    /\ UNCHANGED <<qclosed, wconn, spc, done, runs>>
    /\ UNCHANGED <<poolVars, migVars, extVars>>

Dequeue(w) ==
    /\ wpc[w] = "recv"
    /\ queue # <<>>
    /\ wtask' = [wtask EXCEPT ![w] = Head(queue)]
    /\ queue' = Tail(queue)
    /\ wpc' = [wpc EXCEPT ![w] = "conn"]
    /\ UNCHANGED <<qclosed, wconn, spc, done, runs>>
    /\ UNCHANGED <<poolVars, migVars, extVars>>

\* for task := range w.queue: the channel is closed and drained
WorkerExit(w) ==
    /\ wpc[w] = "recv"
    /\ queue = <<>>
    /\ qclosed
    /\ wpc' = [wpc EXCEPT ![w] = "exit"]
    /\ UNCHANGED <<queue, qclosed, wtask, wconn, spc, done, runs>>
    /\ UNCHANGED <<poolVars, migVars, extVars>>

\* conn, err := w.db.Conn(ctx), ctx = context.Background(): pool.Take
WorkerTake(w) ==
    /\ wpc[w] = "conn"
    /\ ~TakeFails("live")
    /\ \E k \in Conns :
          /\ Take(k)
          /\ wconn' = [wconn EXCEPT ![w] = k]
    /\ wpc' = [wpc EXCEPT ![w] = "taken"]
    /\ UNCHANGED <<closed, remaining, pc, conn, ctx, ret, stmts, engine>>
    /\ UNCHANGED <<queue, qclosed, wtask, spc, done, runs>>
    /\ UNCHANGED <<migVars, extVars>>

\* if err != nil { return }: back to the range loop, task.done untouched
WorkerConnErr(w) ==
    /\ wpc[w] = "conn"
    /\ TakeFails("live")
    /\ wpc' = [wpc EXCEPT ![w] = "recv"]
    /\ wtask' = [wtask EXCEPT ![w] = 0]
    /\ UNCHANGED <<queue, qclosed, wconn, spc, done, runs>>
    /\ UNCHANGED <<poolVars, migVars, extVars>>

\* Database.Conn after Take: atomic.AddInt64(&db.remaining, -1)
WorkerConnAdd(w) ==
    /\ wpc[w] = "taken"
    /\ AddRemaining(-1)
    /\ wpc' = [wpc EXCEPT ![w] = "run"]
    /\ UNCHANGED <<free, closed, pc, conn, ctx, ret, stmts, engine>>
    /\ UNCHANGED <<queue, qclosed, wtask, wconn, spc, done, runs>>
    /\ UNCHANGED <<migVars, extVars>>

\* task.fn(conn)
WorkerRun(w) ==
    /\ wpc[w] = "run"
    /\ runs' = [runs EXCEPT ![wtask[w]] = @ + 1]
    /\ wpc' = [wpc EXCEPT ![w] = "signal"]
    /\ UNCHANGED <<queue, qclosed, wtask, wconn, spc, done>>
    /\ UNCHANGED <<poolVars, migVars, extVars>>

\* task.done <- struct{}{} (channel of capacity 1)
WorkerSignal(w) ==
    /\ wpc[w] = "signal"
    /\ done[wtask[w]] < 1
    /\ done' = [done EXCEPT ![wtask[w]] = @ + 1]
    /\ wpc' = [wpc EXCEPT ![w] = "close"]
    /\ UNCHANGED <<queue, qclosed, wtask, wconn, spc, runs>>
    /\ UNCHANGED <<poolVars, migVars, extVars>>

\* the deferred conn.Close() without the pool.Put: the connection is kept
CloseMutant(w) ==
    /\ wpc[w] = "close"
    /\ wpc' = [wpc EXCEPT ![w] = "closeAdd"]
    /\ UNCHANGED <<free, closed, remaining, pc, conn, ctx, ret, stmts, engine>>
    /\ UNCHANGED <<queue, qclosed, wtask, wconn, spc, done, runs>>
    /\ UNCHANGED <<migVars, extVars>>

\* the deferred conn.Close(): c.db.pool.Put(c.conn)
Close(w) ==
    /\ wpc[w] = "close"
    /\ PoolPut(wconn[w])
    /\ wpc' = [wpc EXCEPT ![w] = "closeAdd"]
    /\ UNCHANGED <<closed, remaining, pc, conn, ctx, ret, stmts, engine>>
    /\ UNCHANGED <<queue, qclosed, wtask, wconn, spc, done, runs>>
    /\ UNCHANGED <<migVars, extVars>>

\* conn.Close(): atomic.AddInt64(&c.db.remaining, 1); next iteration
CloseAdd(w) ==
    /\ wpc[w] = "closeAdd"
    /\ AddRemaining(1)
    /\ wpc' = [wpc EXCEPT ![w] = "recv"]
    /\ wtask' = [wtask EXCEPT ![w] = 0]
    /\ wconn' = [wconn EXCEPT ![w] = NoConn]
    /\ UNCHANGED <<free, closed, pc, conn, ctx, ret, stmts, engine>>
    /\ UNCHANGED <<queue, qclosed, spc, done, runs>>
    /\ UNCHANGED <<migVars, extVars>>

\* NewWorker(db, QueueSize, WorkerSize) on a freshly opened Database
WorkerNext ==
    \/ \E t \in Tasks : Submit(t)
    \/ \E t \in Tasks : SubmitReturn(t)
    \/ WorkerClose
    \/ \E w \in Workers : Dequeue(w)
    \/ \E w \in Workers : WorkerExit(w)
    \/ \E w \in Workers : WorkerTake(w)
    \/ \E w \in Workers : WorkerConnErr(w)
    \/ \E w \in Workers : WorkerConnAdd(w)
    \/ \E w \in Workers : WorkerRun(w)
    \/ \E w \in Workers : WorkerSignal(w)
    \/ \E w \in Workers : Close(w)
    \/ \E w \in Workers : CloseAdd(w)
    \/ DbClose

SpecWorker == Init /\ [][WorkerNext]_vars

Finished(t) ==
    /\ spc[t] = "wait"
    /\ \A i \in 1..Len(queue) : queue[i] # t
    /\ \A w \in Workers : wtask[w] # t

\* C4: every dequeued task has its completion signal fired, on every path
\* through the worker loop: once the worker is done with a task whose
\* submitter still waits, task.done holds the signal.
C4_DequeuedIsSignalled ==
    \A t \in Tasks : Finished(t) => done[t] = 1

\* task t waits in the channel
InQueue(t) == \E i \in 1..Len(queue) : queue[i] = t

\* task t is in the hands of a worker
Carried(t) == \E w \in Workers : wtask[w] = t

C20_RunsAfterClose ==
    [][\A w \in Workers :
          (qclosed /\ wtask[w] # 0 /\ wtask'[w] = 0) =>
              (runs[wtask[w]] = 1 /\
               (done[wtask[w]] = 1 \/ spc[wtask[w]] = "returned"))]_vars

\* C23: a worker gives its connection back before it signals the task:
\* while a worker still carries a task that is signalled or whose Submit
\* has returned, the connection the task ran on is back in the pool.
C23_ReleasedBeforeSignal ==
    \A w \in Workers :
        (wtask[w] # 0 /\
         (done[wtask[w]] = 1 \/ spc[wtask[w]] = "returned")) =>
            wconn[w] \in free

(* ------------- the Worker beside other callers of the pool ------------- *)
\* the Worker of a Database that is never closed, while other callers lease
\* connections with Conn and give them back with Done
\* the Submit calls and the other callers of Conn that are followed to the end
NumLiveTasks == 2
NumLiveClients == 2
LiveTasks == 1..NumLiveTasks
LiveClients == 1..NumLiveClients

LiveNext ==
    \/ \E t \in LiveTasks : Submit(t)
    \/ \E t \in LiveTasks : SubmitReturn(t)
    \/ \E w \in Workers : Dequeue(w)
    \/ \E w \in Workers : WorkerTake(w)
    \/ \E w \in Workers : WorkerConnAdd(w)
    \/ \E w \in Workers : WorkerRun(w)
    \/ \E w \in Workers : WorkerSignal(w)
    \/ \E w \in Workers : Close(w)
    \/ \E w \in Workers : CloseAdd(w)
    \/ \E c \in LiveClients : ConnCall(c)
    \/ \E c \in LiveClients : CancelCtx(c)
    \/ \E c \in LiveClients : ConnTake(c)
    \/ \E c \in LiveClients : ConnErr(c)
    \/ \E c \in LiveClients : ConnAdd(c)
    \/ \E c \in LiveClients : Done(c)
    \/ \E c \in LiveClients : putAdd(c)

\* fair scheduling: every goroutine that can take its next step does so; a
\* goroutine blocked on a channel (the send of Submit, the receive inside
\* pool.Take) is served in its turn however often others get in between;
\* task functions terminate; a caller that holds a connection gives it back
LiveFairness ==
    /\ \A t \in LiveTasks : SF_vars(Submit(t)) /\ WF_vars(SubmitReturn(t))
    /\ \A w \in Workers :
          /\ SF_vars(Dequeue(w))
          /\ SF_vars(WorkerTake(w))
          /\ WF_vars(WorkerConnAdd(w))
          /\ WF_vars(WorkerRun(w))
          /\ WF_vars(WorkerSignal(w))
          /\ WF_vars(Close(w))
          /\ WF_vars(CloseAdd(w))
    /\ \A c \in LiveClients :
          WF_vars(ConnAdd(c)) /\ WF_vars(Done(c)) /\ WF_vars(putAdd(c))

SpecLive == Init /\ [][LiveNext]_vars /\ LiveFairness

\* C30: under fair scheduling, with a pool that is never closed, every
\* Submit call eventually returns, with more workers than connections and
\* with other callers leasing and releasing connections of the same pool.
C30_SubmitReturns == \A t \in LiveTasks : <>(spc[t] = "returned")

\* both workers carry a task, one of them runs it on the only connection
\* while the other waits in Take, and another caller waits in Take as well
C30_Witness ==
    /\ WorkerSize > PoolSize
    /\ \A w \in Workers : wtask[w] # 0
    /\ \E w \in Workers : wpc[w] = "run"
    /\ \E w \in Workers : wpc[w] = "conn"
    /\ \E c \in Clients : pc[c] = "take" /\ ctx[c] = "live"

(* ============================== Migration ============================== *)
\* the scripts are the .sql entries of the directory, numbered in the order
\* sort.Strings gives them; reading a script or executing it succeeds or fails
Kinds == {"ok", "readfail", "execfail"}

\* the Migration call returns err while at script f
ReturnErr(f) ==
    /\ mpc' = "idle"
    /\ mret' = "err"
    /\ mfail' = f

\* the loop moves to the next script, or Migration returns nil after the last
NextScript(f) ==
    /\ midx' = f + 1
    /\ mfail' = mfail
    /\ IF f + 1 > NumFiles
          THEN mpc' = "idle" /\ mret' = "nil"
          ELSE mpc' = "read" /\ mret' = mret

\* a Migration call: ReadDir, filter, sort.Strings, enter the loop
Migration ==
    /\ mpc = "idle"
    /\ mrun < MaxRuns
    /\ mrun' = mrun + 1
    /\ mprev' = mfail
    /\ mfail' = 0
    /\ mret' = "none"
    /\ ranNow' = {}
    /\ midx' = 1
    /\ mpc' = "read"
    /\ UNCHANGED <<files, execd, mconn>>
    /\ UNCHANGED <<poolVars, workerVars, extVars>>

\* content, err := fs.ReadFile(sqlFile); if err != nil { return err }
ReadFile ==
    /\ mpc = "read"
    /\ IF files[midx] = "readfail"
          THEN ReturnErr(midx)
          ELSE mpc' = "conn" /\ UNCHANGED <<mret, mfail>>
    /\ UNCHANGED <<files, midx, mrun, mprev, ranNow, execd, mconn>>
    /\ UNCHANGED <<poolVars, workerVars, extVars>>

\* RunScript: conn, err := db.Conn(ctx); if err != nil { return err }
RunScriptConn ==
    /\ mpc = "conn"
    /\ IF TakeFails("live")
          THEN /\ ReturnErr(midx)
               /\ UNCHANGED <<free, remaining, mconn>>
          ELSE /\ \E k \in Conns : Take(k) /\ mconn' = k
               /\ AddRemaining(-1)
               /\ mpc' = "exec"
               /\ UNCHANGED <<mret, mfail>>
    /\ UNCHANGED <<closed, pc, conn, ctx, ret, stmts, engine>>
    /\ UNCHANGED <<files, midx, mrun, mprev, ranNow, execd>>
    /\ UNCHANGED <<workerVars, extVars>>

\* the loop body after a failed ExecScript: if err != nil { return err }
ExecFailedMutant(f) ==
    /\ NextScript(f)
    /\ UNCHANGED <<ranNow, execd>>

ExecFailed(f) ==
    /\ ReturnErr(f)
    /\ UNCHANGED <<midx, ranNow, execd>>

\* RunScript: defer conn.Done(); return ExecScript(conn, sql), and the
\* loop's handling of its result.  ExecScript runs the script in a
\* savepoint: a failing script leaves nothing behind.
RunScriptExec ==
    /\ mpc = "exec"
    /\ IF files[midx] = "execfail"
          THEN ExecFailed(midx)
          ELSE /\ execd' = [execd EXCEPT ![midx] = @ + 1]
               /\ ranNow' = ranNow \cup {midx}
               /\ NextScript(midx)
    /\ PoolPut(mconn)
    /\ AddRemaining(1)
    /\ mconn' = NoConn
    /\ UNCHANGED <<closed, pc, conn, ctx, ret, stmts, engine>>
    /\ UNCHANGED <<files, mrun, mprev>>
    /\ UNCHANGED <<workerVars, extVars>>

\* between two runs somebody repairs a script that fails
FixScript(f) ==
    /\ mpc = "idle"
    /\ files[f] # "ok"
    /\ files' = [files EXCEPT ![f] = "ok"]
    /\ UNCHANGED <<mpc, midx, mrun, mret, mfail, mprev, ranNow, execd, mconn>>
    /\ UNCHANGED <<poolVars, workerVars, extVars>>

MigInit ==
    /\ files \in [Files -> Kinds]
    /\ mpc = "idle"
    /\ midx = 0
    /\ mrun = 0
    /\ mret = "none"
    /\ mfail = 0
    /\ mprev = 0
    /\ ranNow = {}
    /\ execd = [f \in Files |-> 0]
    /\ mconn = NoConn

MigNext ==
    \/ Migration
    \/ ReadFile
    \/ RunScriptConn
    \/ RunScriptExec
    \/ \E f \in Files : FixScript(f)
    \/ DbClose

InitMigration ==
    PoolInit /\ WorkerIdle /\ MigInit /\ BindIdle /\ ConnIdle /\ NewIdle
    /\ RestIdle

SpecMigration == InitMigration /\ [][MigNext]_vars

(* ======================== claims: the Migration ======================== *)
\* the scripts whose effect the database holds
Applied == {f \in Files : execd[f] > 0}

\* C5: a script that completed successfully in an earlier run is never
\* executed again: no script is executed to completion twice.
C5_NeverExecutedAgain == \A f \in Files : execd[f] <= 1

\* C6: after a run failed at script k, scripts 1..k-1 are applied and k is
\* not; a later run that succeeds once k is fixed has executed exactly the
\* scripts k..n.
C6_ResumesAtFailedScript ==
    /\ (mpc = "idle" /\ mrun = 1 /\ mfail > 0) => Applied = 1..(mfail - 1)
    /\ (mpc = "idle" /\ mret = "nil" /\ mprev > 0) =>
           ranNow = mprev..NumFiles

\* C7: when reading or executing script k fails, Migration returns the
\* error at once: the run has executed the scripts before k and nothing
\* after it, and during a run no script is executed ahead of the loop.
C7_StopsAtFirstFailure ==
    /\ mpc # "idle" => ranNow = 1..(midx - 1) /\ mret = "none"
    /\ (mpc = "idle" /\ mfail > 0) =>
           (mret = "err" /\ ranNow = 1..(mfail - 1))
    /\ (mpc = "idle" /\ mret = "nil") => ranNow = Files

\* a run failed at a script that is not the last one, after executing some
C7_Witness ==
    /\ mpc = "idle" /\ mret = "err" /\ ~closed
    /\ mfail > 1 /\ mfail < NumFiles
    /\ files[mfail] = "execfail"
    /\ \E f \in Files : f > mfail /\ files[f] = "ok"

(* ===================== Conn.Prepare: binding values ==================== *)
\* the dynamic types a value handed to Prepare can have, as far as the
\* binding loop tells them apart: "rawmsg" is json.RawMessage, "namedbytes"
\* any other named type whose kind is a slice of bytes, "strstringer" and
\* "intstringer" a string-kinded and an integer-kinded fmt.Stringer
Values == {"nil", "bytes", "slice", "map", "string", "int", "uint", "float",
           "bool", "time", "stringer", "struct", "ptrstruct", "chan", "func",
           "rawmsg", "namedbytes", "strstringer", "intstringer"}

ArgLists == UNION {[1..n -> Values] : n \in 0..MaxParams}

\* what the loop binds for one value: the nil test, the switch on
\* valueType.Kind(), then the type switch; "ERR" is return ErrUnknownType,
\* "PANIC" the failed assertion value.(json.RawMessage)
BindOf(v) ==
    CASE v = "nil" -> "NULL"
      [] v \in {"bytes", "rawmsg"} -> "BLOB"
      [] v = "namedbytes" -> "PANIC"
      [] v \in {"slice", "map"} -> "JSON"
      [] v \in {"string", "strstringer"} -> "TEXT"
      [] v \in {"int", "uint", "intstringer"} -> "INTEGER"
      [] v = "float" -> "REAL"
      [] v = "bool" -> "BOOL"
      [] v = "time" -> "EPOCH"
      [] v = "stringer" -> "STRING"
      [] OTHER -> "ERR"

\* the loop stops at value v
Stops(v) == BindOf(v) \in {"ERR", "PANIC"}

\* index of the first value the loop stops at, 0 if none
FirstBad(vals) ==
    IF \E i \in 1..Len(vals) : Stops(vals[i])
       THEN CHOOSE i \in 1..Len(vals) :
                /\ Stops(vals[i])
                /\ \A j \in 1..(i - 1) : ~Stops(vals[j])
       ELSE 0

\* for i, value := range values { i++; ... stmt.BindX(i, ...) }: position i
\* is bound before value i+1 is looked at
PrepareBind(vals) ==
    /\ bargs' = vals
    /\ LET fb == FirstBad(vals)
           n == IF fb = 0 THEN Len(vals) ELSE fb - 1
       IN  /\ bbound' = [i \in 1..n |-> BindOf(vals[i])]
           /\ bret' = IF fb = 0 THEN "nil"
                      ELSE IF BindOf(vals[fb]) = "PANIC" THEN "panic"
                      ELSE "ErrUnknownType"
    /\ UNCHANGED <<poolVars, workerVars, migVars, connVars, newVars, restVars>>

BindNext == \E vals \in ArgLists : PrepareBind(vals)

InitBind ==
    PoolInit /\ WorkerIdle /\ MigIdle /\ BindIdle /\ ConnIdle /\ NewIdle
    /\ RestIdle

SpecBind == InitBind /\ [][BindNext]_vars

(* ========================= claims: binding ============================= *)
\* C12: a struct value or a pointer to one (not a time instant) is accepted
\* by Prepare and bound as JSON text at its position.
C12_StructBoundAsJson ==
    \A i \in 1..Len(bargs) :
        bargs[i] \in {"struct", "ptrstruct"} =>
            /\ bret = "nil"
            /\ i <= Len(bbound)
            /\ bbound[i] = "JSON"

\* C13: a Prepare call that fails with ErrUnknownType has bound no
\* parameter position.
C13_UnknownTypeBindsNothing ==
    bret = "ErrUnknownType" => bbound = <<>>

\* C25: each value is bound by the first matching rule of the documented
\* order, value i at position i: nil as NULL, every byte-sequence-kinded
\* value as BLOB, another sequence or a map as JSON, a string-kinded value
\* as TEXT and an integer-kinded one as INTEGER even when renderable, a
\* time instant as epoch seconds, another renderable value as its string,
\* anything else is the unknown-type error.
C25_FirstMatchingRule ==
    LET Rule(v) ==
            CASE v = "nil" -> "NULL"
              [] v \in {"bytes", "rawmsg", "namedbytes"} -> "BLOB"
              [] v \in {"slice", "map"} -> "JSON"
              [] v \in {"string", "strstringer"} -> "TEXT"
              [] v \in {"int", "uint", "intstringer"} -> "INTEGER"
              [] v = "float" -> "REAL"
              [] v = "bool" -> "BOOL"
              [] v = "time" -> "EPOCH"
              [] v = "stringer" -> "STRING"
              [] OTHER -> "ERR"
    IN  \A i \in 1..Len(bargs) :
            (\A j \in 1..(i - 1) : Rule(bargs[j]) # "ERR") =>
                IF Rule(bargs[i]) = "ERR"
                   THEN bret = "ErrUnknownType" /\ Len(bbound) = i - 1
                   ELSE i <= Len(bbound) /\ bbound[i] = Rule(bargs[i])

(* ============== one leased Conn: Warmup, Prepare, close, Save ========== *)
Texts == 1..NumTexts

SqlLists == UNION {[1..n -> Texts] : n \in 0..NumTexts}

\* the Conn is usable: close() has not been called on it
Usable == handle = "open" /\ cop # "close"

\* Warmup(sqls...): refuse when c.stmts is not empty, return nil on an empty
\* list, otherwise prepare the list in order and stop at the first
\* statement c.conn.Prepare rejects
Warmup(sqls) ==
    /\ Usable
    /\ warmCalls < MaxWarm
    /\ warmCalls' = warmCalls + 1
    /\ cop' = "Warmup"
    /\ IF cstmts # {}
          THEN cret' = "err" /\ UNCHANGED <<cstmts, clive>>
          ELSE IF sqls = <<>>
          THEN cret' = "nil" /\ UNCHANGED <<cstmts, clive>>
          ELSE \E n \in 0..Len(sqls) :
                  /\ cstmts' = {sqls[i] : i \in 1..n}
                  /\ clive' = clive \cup {sqls[i] : i \in 1..n}
                  /\ cret' = IF n = Len(sqls) THEN "nil" ELSE "err"
    /\ UNCHANGED <<cfail, handle, tried>>
    /\ UNCHANGED <<fpc, deferred, svOpen, pendingW, committedW, rolledW, ferr>>
    /\ UNCHANGED <<poolVars, workerVars, migVars, bindVars, newVars, restVars>>

\* Prepare up to c.stmts[sql] = stmt: c.conn.Prepare(sql) succeeds or fails
PrepareStmt(q) ==
    /\ Usable
    /\ cop' = "Prepare"
    /\ \/ /\ cstmts' = cstmts \cup {q}
          /\ clive' = clive \cup {q}
          /\ cret' = "nil"
       \/ /\ cret' = "err"
          /\ UNCHANGED <<cstmts, clive>>
    /\ UNCHANGED <<cfail, handle, tried, warmCalls>>
    /\ UNCHANGED <<fpc, deferred, svOpen, pendingW, committedW, rolledW, ferr>>
    /\ UNCHANGED <<poolVars, workerVars, migVars, bindVars, newVars, restVars>>

\* _, err = stmt.Step() with err != nil: from now on the statement's
\* Finalize reports that error
StepFails(q) ==
    /\ Usable
    /\ q \in clive
    /\ q \notin cfail
    /\ cfail' = cfail \cup {q}
    /\ cop' = "Step"
    /\ cret' = "err"
    /\ UNCHANGED <<cstmts, clive, handle, tried, warmCalls>>
    /\ UNCHANGED <<fpc, deferred, svOpen, pendingW, committedW, rolledW, ferr>>
    /\ UNCHANGED <<poolVars, workerVars, migVars, bindVars, newVars, restVars>>

\* close(): range over c.stmts (any order); return the first Finalize error
\* at once; after the loop return c.conn.Close()
close ==
    /\ Usable
    /\ cop' = "close"
    /\ \/ /\ cstmts \cap cfail \cap clive = {}
          /\ tried' = cstmts
          /\ clive' = clive \ cstmts
          /\ handle' = "closed"
          /\ cret' = "nil"
       \/ /\ \E bad \in cstmts \cap cfail \cap clive :
             \E before \in SUBSET (cstmts \ (cfail \cap clive)) :
                /\ tried' = before \cup {bad}
                /\ clive' = clive \ (before \cup {bad})
          /\ handle' = handle
          /\ cret' = "err"
    /\ UNCHANGED <<cstmts, cfail, warmCalls>>
    /\ UNCHANGED <<fpc, deferred, svOpen, pendingW, committedW, rolledW, ferr>>
    /\ UNCHANGED <<poolVars, workerVars, migVars, bindVars, newVars, restVars>>

\* Save of conn.go:27 used as its comment says, defer conn.Save(&err): the
\* call of Save itself is what is deferred
DeferSave ==
    /\ Usable
    /\ fpc = "start"
    /\ deferred' = "Save"
    /\ fpc' = "body"
    /\ UNCHANGED <<svOpen, pendingW, committedW, rolledW, ferr>>
    /\ UNCHANGED <<cstmts, clive, cfail, handle, tried, cop, cret, warmCalls>>
    /\ UNCHANGED <<poolVars, workerVars, migVars, bindVars, newVars, restVars>>

\* Save of conn.go:190 used as its comment says, defer conn.Save(&err)():
\* sqlitex.Save opens the savepoint now, the returned func is deferred
DeferSaveRelease ==
    /\ Usable
    /\ fpc = "start"
    /\ svOpen' = TRUE
    /\ deferred' = "release"
    /\ fpc' = "body"
    /\ UNCHANGED <<pendingW, committedW, rolledW, ferr>>
    /\ UNCHANGED <<cstmts, clive, cfail, handle, tried, cop, cret, warmCalls>>
    /\ UNCHANGED <<poolVars, workerVars, migVars, bindVars, newVars, restVars>>

\* the function executes a statement on the connection: inside the open
\* savepoint, or committed at once when none is open
Work ==
    /\ Usable
    /\ fpc = "body"
    /\ pendingW + committedW < MaxWork
    /\ IF svOpen
          THEN pendingW' = pendingW + 1 /\ UNCHANGED committedW
          ELSE committedW' = committedW + 1 /\ UNCHANGED pendingW
    /\ UNCHANGED <<fpc, deferred, svOpen, rolledW, ferr>>
    /\ UNCHANGED <<cstmts, clive, cfail, handle, tried, cop, cret, warmCalls>>
    /\ UNCHANGED <<poolVars, workerVars, migVars, bindVars, newVars, restVars>>

\* the function returns with *err nil or not, and its deferred call runs:
\* the deferred Save opens a savepoint and releases it at once; the
\* deferred release commits the savepoint if *err == nil, else rolls back
Return ==
    /\ Usable
    /\ fpc = "body"
    /\ fpc' = "done"
    /\ \E e \in BOOLEAN :
          /\ ferr' = e
          /\ IF deferred = "release"
                THEN IF e
                        THEN /\ rolledW' = pendingW
                             /\ UNCHANGED committedW
                        ELSE /\ committedW' = committedW + pendingW
                             /\ UNCHANGED rolledW
                ELSE UNCHANGED <<committedW, rolledW>>
    /\ pendingW' = 0
    /\ svOpen' = FALSE
    /\ UNCHANGED deferred
    /\ UNCHANGED <<cstmts, clive, cfail, handle, tried, cop, cret, warmCalls>>
    /\ UNCHANGED <<poolVars, workerVars, migVars, bindVars, newVars, restVars>>

ConnNext ==
    \/ \E sqls \in SqlLists : Warmup(sqls)
    \/ \E q \in Texts : PrepareStmt(q)
    \/ \E q \in Texts : StepFails(q)
    \/ close
    \/ DeferSave
    \/ DeferSaveRelease
    \/ Work
    \/ Return

InitConn ==
    PoolInit /\ WorkerIdle /\ MigIdle /\ BindIdle /\ ConnIdle /\ NewIdle
    /\ RestIdle

SpecConn == InitConn /\ [][ConnNext]_vars

(* ========================= claims: one Conn ============================ *)
\* C11: close() calls Finalize on every cached statement even if an earlier
\* Finalize failed, then closes the engine handle, and returns an error
\* exactly when some Finalize reported one.
C11_CloseFinalizesAll ==
    cop = "close" =>
        /\ tried = cstmts
        /\ handle = "closed"
        /\ (cret = "err") <=> (\E q \in tried : q \in cfail)

\* C14: every Warmup call after a first Warmup call returns the "already
\* warmed up" error.
C14_SecondWarmupFails ==
    (cop = "Warmup" /\ warmCalls >= 2) => cret = "err"

\* C15: with Save deferred as documented, the work the function executed
\* is committed when *err is nil at the release and rolled back otherwise.
C15_SaveScopesWork ==
    fpc = "done" =>
        IF ferr THEN committedW = 0
                ELSE rolledW = 0 /\ pendingW = 0

(* ================= New and its options, per revision =================== *)
Revisions == {"helper", "part_001", "database"}

Handles == 1..MaxSize

\* the pool size the library uses: a size of 0 means the library's default,
\* which the model takes to be the largest size it handles
Size == IF nsize = 0 THEN MaxSize ELSE nsize

\* the option loop of New is still running and may apply one more option
Applying == npc = "opts" /\ nopts < MaxOpts

\* WithPoolSize(size) of helper.go and part_001: an error, which New
\* returns, if db.size != 0; else db.size = size
WithPoolSizeChecked(size) ==
    /\ Applying
    /\ rev \in {"helper", "part_001"}
    /\ nopts' = nopts + 1
    /\ IF nsize # 0
          THEN npc' = "failedOption" /\ UNCHANGED <<nsize, sizeOk>>
          ELSE nsize' = size /\ sizeOk' = sizeOk + 1 /\ UNCHANGED npc
    /\ UNCHANGED <<rev, nfns, nhook, hstate, hleased, hreg>>
    /\ UNCHANGED <<poolVars, workerVars, migVars, bindVars, connVars, restVars>>

\* WithPoolSize(size) of database.go: db.size = size; return nil
WithPoolSize(size) ==
    /\ Applying
    /\ rev = "database"
    /\ nopts' = nopts + 1
    /\ nsize' = size
    /\ sizeOk' = sizeOk + 1
    /\ UNCHANGED <<rev, npc, nfns, nhook, hstate, hleased, hreg>>
    /\ UNCHANGED <<poolVars, workerVars, migVars, bindVars, connVars, restVars>>

\* WithFunctions(fns): db.fns = fns
WithFunctions ==
    /\ Applying
    /\ nopts' = nopts + 1
    /\ nfns' = TRUE
    /\ UNCHANGED <<rev, npc, nsize, nhook, sizeOk, hstate, hleased, hreg>>
    /\ UNCHANGED <<poolVars, workerVars, migVars, bindVars, connVars, restVars>>

\* WithConnPrepareFunc(fn): db.prepareConnFn = fn (absent from helper.go)
WithConnPrepareFunc ==
    /\ Applying
    /\ rev # "helper"
    /\ nopts' = nopts + 1
    /\ nhook' = TRUE
    /\ UNCHANGED <<rev, npc, nsize, nfns, sizeOk, hstate, hleased, hreg>>
    /\ UNCHANGED <<poolVars, workerVars, migVars, bindVars, connVars, restVars>>

\* helper.go: sqlitex.Open opens db.size handles, or fails leaving none
Open ==
    /\ npc = "opts"
    /\ rev = "helper"
    /\ \/ /\ hstate' = [k \in Handles |-> IF k <= Size THEN "open"
                                                        ELSE "unopened"]
          /\ npc' = "loop"
       \/ /\ npc' = "failedOpen"
          /\ UNCHANGED hstate
    /\ UNCHANGED <<rev, nsize, nfns, nhook, nopts, sizeOk, hleased, hreg>>
    /\ UNCHANGED <<poolVars, workerVars, migVars, bindVars, connVars, restVars>>

\* helper.go, one turn of the loop over db.size: db.Conn leases handle k,
\* conn.Exec(pragma) and conn.Function for each of db.fns run on it; any
\* error is returned by New at once
NewSetup(k) ==
    /\ npc = "loop"
    /\ k <= Size
    /\ ~hleased[k]
    /\ \A j \in 1..(k - 1) : hleased[j]
    /\ hleased' = [hleased EXCEPT ![k] = TRUE]
    /\ \/ /\ hreg' = [hreg EXCEPT ![k] = nfns]
          /\ UNCHANGED npc
       \/ /\ npc' = "failedSetup"
          /\ UNCHANGED hreg
    /\ UNCHANGED <<rev, nsize, nfns, nhook, nopts, sizeOk, hstate>>
    /\ UNCHANGED <<poolVars, workerVars, migVars, bindVars, connVars, restVars>>

\* helper.go: after the loop every leased connection is given back and New
\* returns the Database
NewRelease ==
    /\ npc = "loop"
    /\ \A k \in 1..Size : hleased[k]
    /\ hleased' = [k \in Handles |-> FALSE]
    /\ npc' = "ready"
    /\ UNCHANGED <<rev, nsize, nfns, nhook, nopts, sizeOk, hstate, hreg>>
    /\ UNCHANGED <<poolVars, workerVars, migVars, bindVars, connVars, restVars>>

\* part_001 and database.go: sqlitex.NewPool stores PrepareConn and opens
\* nothing yet; New returns the Database, or NewPool's error
NewPool ==
    /\ npc = "opts"
    /\ rev # "helper"
    /\ npc' \in {"ready", "failedOpen"}
    /\ UNCHANGED <<rev, nsize, nfns, nhook, nopts, sizeOk, hstate, hleased,
                   hreg>>
    /\ UNCHANGED <<poolVars, workerVars, migVars, bindVars, connVars, restVars>>

\* PrepareConn on handle k: the pragma, then (part_001 only) CreateFunction
\* for each of db.fns, then the hook if one is set
PrepareConn(k) ==
    IF rev = "part_001" THEN [hreg EXCEPT ![k] = nfns] ELSE hreg

\* db.Conn after New: pool.Take hands out a free handle; a handle not yet
\* set up is opened and goes through PrepareConn first, and Take fails
\* without leasing it if PrepareConn fails
Lease(k) ==
    /\ npc = "ready"
    /\ k <= Size
    /\ ~hleased[k]
    /\ \/ /\ hstate[k] = "open"
          /\ hleased' = [hleased EXCEPT ![k] = TRUE]
          /\ UNCHANGED <<hstate, hreg>>
       \/ /\ hstate[k] \in {"unopened", "unprepared"}
          /\ \/ /\ hstate' = [hstate EXCEPT ![k] = "open"]
                /\ hreg' = PrepareConn(k)
                /\ hleased' = [hleased EXCEPT ![k] = TRUE]
             \/ /\ hstate' = [hstate EXCEPT ![k] = "unprepared"]
                /\ UNCHANGED <<hreg, hleased>>
    /\ UNCHANGED <<rev, npc, nsize, nfns, nhook, nopts, sizeOk>>
    /\ UNCHANGED <<poolVars, workerVars, migVars, bindVars, connVars, restVars>>

\* conn.Done / conn.Close after New: the handle goes back to the pool
Release(k) ==
    /\ npc = "ready"
    /\ hleased[k]
    /\ hleased' = [hleased EXCEPT ![k] = FALSE]
    /\ UNCHANGED <<rev, npc, nsize, nfns, nhook, nopts, sizeOk, hstate, hreg>>
    /\ UNCHANGED <<poolVars, workerVars, migVars, bindVars, connVars, restVars>>

NewNext ==
    \/ \E size \in 0..MaxSize : WithPoolSizeChecked(size)
    \/ \E size \in 0..MaxSize : WithPoolSize(size)
    \/ WithFunctions
    \/ WithConnPrepareFunc
    \/ Open
    \/ \E k \in Handles : NewSetup(k)
    \/ NewRelease
    \/ NewPool
    \/ \E k \in Handles : Lease(k)
    \/ \E k \in Handles : Release(k)

InitNew ==
    /\ PoolInit /\ WorkerIdle /\ MigIdle /\ BindIdle /\ ConnIdle /\ RestIdle
    /\ rev \in Revisions
    /\ npc = "opts"
    /\ nsize = 0
    /\ nfns = FALSE
    /\ nhook = FALSE
    /\ nopts = 0
    /\ sizeOk = 0
    /\ hstate = [k \in Handles |-> "unopened"]
    /\ hleased = [k \in Handles |-> FALSE]
    /\ hreg = [k \in Handles |-> FALSE]

SpecNew == InitNew /\ [][NewNext]_vars

(* ========================= claims: New ================================= *)
\* C16: while one Database is built, WithPoolSize succeeds at most once:
\* a second WithPoolSize option returns an error, whatever the two sizes.
C16_SecondPoolSizeFails == sizeOk <= 1

\* C17: a connection leased to a caller of a Database built with
\* WithFunctions has those functions registered on it.
C17_FunctionsRegistered ==
    \A k \in Handles : (npc = "ready" /\ nfns /\ hleased[k]) => hreg[k]

\* C18: when New has returned the error of a failed connection setup, no
\* engine handle is open and none is leased.
C18_FailedNewLeavesNothing ==
    npc = "failedSetup" =>
        \A k \in Handles : hstate[k] # "open" /\ ~hleased[k]

(* ================== round trip of one value through a column ========== *)
\* 2^n
RECURSIVE Pow2(_)
Pow2(n) == IF n = 0 THEN 1 ELSE 2 * Pow2(n - 1)

\* the values of int64 and of uint64, at the width of the model
Int64s == (0 - Pow2(Bits - 1))..(Pow2(Bits - 1) - 1)
Uint64s == 0..(Pow2(Bits) - 1)

\* strings and byte slices: sequences of bytes
ByteSeqs == UNION {[1..n -> 0..1] : n \in 0..MaxLen}

\* the Go values of the kinds Prepare binds without JSON
RoundValues ==
    [kind : {"int"}, val : Int64s]
    \cup [kind : {"uint"}, val : Uint64s]
    \cup [kind : {"string"}, val : ByteSeqs]
    \cup [kind : {"bytes"}, val : ByteSeqs]
    \cup [kind : {"bool"}, val : BOOLEAN]
    \cup [kind : {"time"}, sec : Int64s, nsec : 0..1]

\* int64(u) of an unsigned u: the same bits read as two's complement
ToInt64(u) == IF u >= Pow2(Bits - 1) THEN u - Pow2(Bits) ELSE u

\* uint64(n) of a signed n
ToUint64(n) == n % Pow2(Bits)

\* the column Prepare's binding loop stores for v: BindText, BindInt64 of
\* Int() / int64(Uint()) / v.Unix(), BindBool, BindBytes
BindColumn(v) ==
    CASE v.kind = "bytes" -> [type |-> "BLOB", val |-> v.val]
      [] v.kind = "string" -> [type |-> "TEXT", val |-> v.val]
      [] v.kind = "int" -> [type |-> "INTEGER", val |-> v.val]
      [] v.kind = "uint" -> [type |-> "INTEGER", val |-> ToInt64(v.val)]
      [] v.kind = "bool" -> [type |-> "INTEGER", val |-> IF v.val THEN 1 ELSE 0]
      [] v.kind = "time" -> [type |-> "INTEGER", val |-> v.sec]

\* LoadTime with its arguments swapped: time.Unix(0, value)
LoadTimeMutant(col) == [kind |-> "time", sec |-> 0, nsec |-> col.val % 2]

\* LoadTime: value := stmt.GetInt64(key); return time.Unix(value, 0)
LoadTime(col) == [kind |-> "time", sec |-> col.val, nsec |-> 0]

\* reading the column back as the Go type that was bound: GetBytes,
\* GetText, GetInt64, uint64(GetInt64), GetBool, LoadTime
ReadColumn(kind, col) ==
    CASE kind = "bytes" -> [kind |-> kind, val |-> col.val]
      [] kind = "string" -> [kind |-> kind, val |-> col.val]
      [] kind = "int" -> [kind |-> kind, val |-> col.val]
      [] kind = "uint" -> [kind |-> kind, val |-> ToUint64(col.val)]
      [] kind = "bool" -> [kind |-> kind, val |-> col.val # 0]
      [] kind = "time" -> LoadTime(col)

\* Prepare binds v and Step stores it
BindValue(v) ==
    /\ rtv = NoValue
    /\ rtv' = v
    /\ rtcol' = BindColumn(v)
    /\ UNCHANGED rtback
    /\ UNCHANGED <<placeVars, listVars, cacheVars>>
    /\ UNCHANGED <<poolVars, workerVars, migVars, bindVars, connVars, newVars>>

\* a later query reads the stored column back
LoadValue ==
    /\ rtv # NoValue
    /\ rtback = NoValue
    /\ rtback' = ReadColumn(rtv.kind, rtcol)
    /\ UNCHANGED <<rtv, rtcol>>
    /\ UNCHANGED <<placeVars, listVars, cacheVars>>
    /\ UNCHANGED <<poolVars, workerVars, migVars, bindVars, connVars, newVars>>

RoundNext ==
    \/ \E v \in RoundValues : BindValue(v)
    \/ LoadValue

InitRound ==
    PoolInit /\ WorkerIdle /\ MigIdle /\ BindIdle /\ ConnIdle /\ NewIdle
    /\ RestIdle

SpecRound == InitRound /\ [][RoundNext]_vars

Counts == 0..MaxCount

\* placeholders with the separator written on every turn of the loop
RECURSIVE placeholdersMutant(_, _, _)
placeholdersMutant(i, count, sb) ==
    IF i >= count
       THEN sb
       ELSE placeholdersMutant(i + 1, count, sb \o <<",", " ">> \o <<"?">>)

\* placeholders(count, sb) from the turn i of its loop on: ", " if i > 0,
\* then "?"
RECURSIVE placeholders(_, _, _)
placeholders(i, count, sb) ==
    IF i >= count
       THEN sb
       ELSE placeholders(i + 1, count,
                (IF i > 0 THEN sb \o <<",", " ">> ELSE sb) \o <<"?">>)

\* GroupPlaceholdersStringBuilder(numRows, numCols, sb) from the turn i of
\* its loop on: ", " if i > 0, then "(", placeholders(numCols, sb), ")"
RECURSIVE GroupPlaceholdersStringBuilder(_, _, _, _)
GroupPlaceholdersStringBuilder(i, numRows, numCols, sb) ==
    IF i >= numRows
       THEN sb
       ELSE GroupPlaceholdersStringBuilder(i + 1, numRows, numCols,
                placeholders(0, numCols,
                    (IF i > 0 THEN sb \o <<",", " ">> ELSE sb) \o <<"(">>)
                \o <<")">>)

\* Placeholders(count): a fresh builder, placeholders, sb.String()
Placeholders(count) ==
    /\ pargs' = <<count>>
    /\ pout' = placeholders(0, count, <<>>)
    /\ UNCHANGED <<gargs, gout>>
    /\ UNCHANGED <<roundVars, listVars, cacheVars>>
    /\ UNCHANGED <<poolVars, workerVars, migVars, bindVars, connVars, newVars>>

\* GroupPlaceholders(numRows, numCols)
GroupPlaceholders(numRows, numCols) ==
    /\ gargs' = <<numRows, numCols>>
    /\ gout' = GroupPlaceholdersStringBuilder(0, numRows, numCols, <<>>)
    /\ UNCHANGED <<pargs, pout>>
    /\ UNCHANGED <<roundVars, listVars, cacheVars>>
    /\ UNCHANGED <<poolVars, workerVars, migVars, bindVars, connVars, newVars>>

PlaceNext ==
    \/ \E count \in Counts : Placeholders(count)
    \/ \E numRows \in Counts : \E numCols \in Counts :
          GroupPlaceholders(numRows, numCols)

InitPlace ==
    PoolInit /\ WorkerIdle /\ MigIdle /\ BindIdle /\ ConnIdle /\ NewIdle
    /\ RestIdle

SpecPlace == InitPlace /\ [][PlaceNext]_vars

(* ========================= claims: placeholders ======================== *)
\* n copies of the string x joined by ", "
RECURSIVE Joined(_, _)
Joined(n, x) ==
    IF n = 0 THEN <<>>
    ELSE IF n = 1 THEN x
    ELSE x \o <<",", " ">> \o Joined(n - 1, x)

\* C22: Placeholders(n) is n copies of "?" joined by ", " and
\* GroupPlaceholders(r, c) is r copies of "(" + Placeholders(c) + ")"
\* joined by ", ".
C22_PlaceholdersJoined ==
    /\ pargs # <<>> => pout = Joined(pargs[1], <<"?">>)
    /\ gargs # <<>> =>
           gout = Joined(gargs[1],
                         <<"(">> \o Joined(gargs[2], <<"?">>) \o <<")">>)

\* Placeholders(3) returned "?, ?, ?" and GroupPlaceholders(2, 3) returned
\* "(?, ?, ?), (?, ?, ?)"
C22_Witness ==
    /\ pargs = <<3>>
    /\ pout = <<"?", ",", " ", "?", ",", " ", "?">>
    /\ gargs = <<2, 3>>
    /\ gout = <<"(", "?", ",", " ", "?", ",", " ", "?", ")", ",", " ",
                "(", "?", ",", " ", "?", ",", " ", "?", ")">>

(* ============ Migration: which entries run, and in which order ========= *)
\* a string is the sequence of its character codes: "." is 1, the letters
\* of a stem are 2 and 3, "/" is 0
Stems == {<<2>>, <<2, 3>>, <<3>>}

\* the extension of a name and the string filepath.Ext returns for it
ExtString(ext) == IF ext = "sql" THEN <<1, 4>> ELSE <<1, 5>>

\* file.Name() of a directory entry
Name(file) == file.stem \o ExtString(file.ext)

\* the entries a directory can hold
DirEntries == [stem : Stems, ext : {"sql", "txt"}, dir : BOOLEAN]

\* what fs.ReadDir(dir) can return: entries with distinct names, any order
Listings ==
    {l \in UNION {[1..n -> DirEntries] : n \in 0..MaxEntries} :
        \A i, j \in 1..Len(l) : i # j => Name(l[i]) # Name(l[j])}

\* the dir argument of Migration, with the separator filepath.Join adds
Dir == <<3, 0>>

\* filepath.Join(dir, file.Name())
Join(name) == Dir \o name

\* s < t as Go compares strings: byte by byte, a proper prefix first
RECURSIVE Less(_, _)
Less(a, b) ==
    IF b = <<>> THEN FALSE
    ELSE IF a = <<>> THEN TRUE
    ELSE IF Head(a) # Head(b) THEN Head(a) < Head(b)
    ELSE Less(Tail(a), Tail(b))

\* the filter of the first loop without its IsDir test
KeptMutant(file) == ExtString(file.ext) = <<1, 4>>

\* the filter of the first loop: not a directory, and Ext(name) == ".sql"
Kept(file) == ~file.dir /\ ExtString(file.ext) = <<1, 4>>

\* the first loop: sqlFiles = the joined paths of the kept entries
RECURSIVE Collect(_)
Collect(l) ==
    IF l = <<>> THEN <<>>
    ELSE IF Kept(Head(l)) THEN <<Join(Name(Head(l)))>> \o Collect(Tail(l))
    ELSE Collect(Tail(l))

\* x put at its place in the ascending list l
RECURSIVE Insert(_, _)
Insert(x, l) ==
    IF l = <<>> THEN <<x>>
    ELSE IF Less(x, Head(l)) THEN <<x>> \o l
    ELSE <<Head(l)>> \o Insert(x, Tail(l))

\* sort.Strings(sqlFiles)
RECURSIVE SortStrings(_)
SortStrings(l) ==
    IF l = <<>> THEN <<>> ELSE Insert(Head(l), SortStrings(Tail(l)))

\* Migration up to its second loop: ReadDir, the filter, sort.Strings; an
\* error of ReadDir is returned
ListDir ==
    /\ lpc = "idle"
    /\ \/ /\ sqlFiles' = SortStrings(Collect(listing))
          /\ lpc' = "loop"
       \/ /\ lpc' = "failed"
          /\ UNCHANGED sqlFiles
    /\ UNCHANGED <<listing, lran>>
    /\ UNCHANGED <<roundVars, placeVars, cacheVars>>
    /\ UNCHANGED <<poolVars, workerVars, migVars, bindVars, connVars, newVars>>

\* one turn of the second loop: ReadFile and RunScript succeed
RunOne ==
    /\ lpc = "loop"
    /\ Len(lran) < Len(sqlFiles)
    /\ lran' = Append(lran, sqlFiles[Len(lran) + 1])
    /\ UNCHANGED <<listing, sqlFiles, lpc>>
    /\ UNCHANGED <<roundVars, placeVars, cacheVars>>
    /\ UNCHANGED <<poolVars, workerVars, migVars, bindVars, connVars, newVars>>

\* one turn of the second loop: ReadFile or RunScript fails, return err
RunFails ==
    /\ lpc = "loop"
    /\ Len(lran) < Len(sqlFiles)
    /\ lpc' = "failed"
    /\ UNCHANGED <<listing, sqlFiles, lran>>
    /\ UNCHANGED <<roundVars, placeVars, cacheVars>>
    /\ UNCHANGED <<poolVars, workerVars, migVars, bindVars, connVars, newVars>>

\* the second loop is over: return nil
RunDone ==
    /\ lpc = "loop"
    /\ Len(lran) = Len(sqlFiles)
    /\ lpc' = "done"
    /\ UNCHANGED <<listing, sqlFiles, lran>>
    /\ UNCHANGED <<roundVars, placeVars, cacheVars>>
    /\ UNCHANGED <<poolVars, workerVars, migVars, bindVars, connVars, newVars>>

ListNext ==
    \/ ListDir
    \/ RunOne
    \/ RunFails
    \/ RunDone

InitList ==
    /\ PoolInit /\ WorkerIdle /\ MigIdle /\ BindIdle /\ ConnIdle /\ NewIdle
    /\ rtv = NoValue /\ rtcol = NoValue /\ rtback = NoValue
    /\ pargs = <<>> /\ pout = <<>> /\ gargs = <<>> /\ gout = <<>>
    /\ listing \in Listings
    /\ sqlFiles = <<>> /\ lran = <<>> /\ lpc = "idle"
    /\ krev = "newest" /\ kmap = FALSE /\ kcache = {} /\ knext = 0
    /\ kfin = [i \in 1..MaxStmts |-> 0] /\ kheld = {} /\ kexec = {}
    /\ kwrap = "leased"

SpecList == InitList /\ [][ListNext]_vars

(* ==================== claims: what a Migration runs ==================== *)
\* the paths of the entries that are scripts: files named *.sql
Scripts ==
    {Join(Name(listing[i])) : i \in {j \in 1..Len(listing) :
        ~listing[j].dir /\ listing[j].ext = "sql"}}

\* C24: one run executes only non-directory entries with extension .sql,
\* in strictly ascending order of name, hence each at most once; a run
\* that returns nil has executed all of them.
C24_RunsSqlFilesInOrder ==
    /\ \A i \in 1..Len(lran) : lran[i] \in Scripts
    /\ \A i \in 1..(Len(lran) - 1) : Less(lran[i], lran[i + 1])
    /\ lpc = "done" => {lran[i] : i \in 1..Len(lran)} = Scripts

\* a run returned nil over a directory that holds a sub-directory named
\* *.sql and two scripts which ReadDir listed in descending order
C24_Witness ==
    /\ lpc = "done"
    /\ Len(lran) = 2
    /\ \E i \in 1..Len(listing) : listing[i].dir /\ listing[i].ext = "sql"
    /\ \E i, j \in 1..Len(listing) :
          /\ i < j
          /\ Join(Name(listing[i])) = lran[2]
          /\ Join(Name(listing[j])) = lran[1]

(* ================= the statement cache of one Conn ===================== *)
\* SQL texts: sequences of characters, 0 is a space
SqlTexts == {<<1>>, <<0, 1>>, <<1, 0>>, <<2>>}

StmtIds == 1..MaxStmts

\* strings.TrimSpace: leading spaces dropped, then trailing ones
RECURSIVE TrimLeft(_)
TrimLeft(t) ==
    IF t # <<>> /\ Head(t) = 0 THEN TrimLeft(Tail(t)) ELSE t

RECURSIVE TrimRight(_)
TrimRight(t) ==
    IF t # <<>> /\ t[Len(t)] = 0
       THEN TrimRight(SubSeq(t, 1, Len(t) - 1))
       ELSE t

TrimSpace(t) == TrimRight(TrimLeft(t))

\* c.stmts[key] = id on the map m
MapSet(m, key, id) == {e \in m : e[1] # key} \cup {<<key, id>>}

\* delete(c.stmts, key) on the map m
MapDelete(m, key) == {e \in m : e[1] # key}

\* the statements the map m holds
MapStmts(m) == {e[2] : e \in m}

\* stmt.Finalize() called once on each statement of ids
Finalized(ids) == [i \in StmtIds |-> IF i \in ids THEN kfin[i] + 1 ELSE kfin[i]]

\* the Warmup loop over sqls on map m: c.conn.Prepare(sql) hands out
\* statement n + 1, c.stmts[sql] = stmt with the text as given
RECURSIVE WarmupLoop(_, _, _)
WarmupLoop(sqls, m, n) ==
    IF sqls = <<>>
       THEN m
       ELSE WarmupLoop(Tail(sqls), MapSet(m, Head(sqls), n + 1), n + 1)

\* Warmup(sqls...) with a non-empty list on a Conn whose c.stmts is empty:
\* c.stmts = make(map), then the loop
CacheWarmup(sqls) ==
    /\ kwrap = "leased"
    /\ kcache = {}
    /\ sqls # <<>>
    /\ knext + Len(sqls) <= MaxStmts
    /\ kmap' = TRUE
    /\ kcache' = WarmupLoop(sqls, {}, knext)
    /\ knext' = knext + Len(sqls)
    /\ UNCHANGED <<krev, kfin, kheld, kexec, kwrap>>
    /\ UNCHANGED <<roundVars, placeVars, listVars>>
    /\ UNCHANGED <<poolVars, workerVars, migVars, bindVars, connVars, newVars>>

\* Prepare(ctx, sql): sql = strings.TrimSpace(sql); c.conn.Prepare(sql);
\* c.stmts[sql] = stmt, which panics while c.stmts is the nil map
CachePrepare(sql) ==
    /\ kwrap = "leased"
    /\ knext < MaxStmts
    /\ knext' = knext + 1
    /\ IF kmap
          THEN /\ kcache' = MapSet(kcache, TrimSpace(sql), knext + 1)
               /\ kheld' = kheld \cup {knext + 1}
               /\ UNCHANGED kwrap
          ELSE /\ kwrap' = "panicked"
               /\ UNCHANGED <<kcache, kheld>>
    /\ UNCHANGED <<krev, kmap, kfin, kexec>>
    /\ UNCHANGED <<roundVars, placeVars, listVars>>
    /\ UNCHANGED <<poolVars, workerVars, migVars, bindVars, connVars, newVars>>

\* Exec(ctx, sql) of conn.go:146: Prepare, then Step, then the deferred
\* stmt.Finalize() and delete(c.stmts, sql) with the sql Exec was given
CacheExec(sql) ==
    /\ kwrap = "leased"
    /\ krev = "newest"
    /\ knext < MaxStmts
    /\ knext' = knext + 1
    /\ IF kmap
          THEN /\ kcache' = MapDelete(MapSet(kcache, TrimSpace(sql),
                                             knext + 1), sql)
               /\ kfin' = Finalized({knext + 1})
               /\ kexec' = kexec \cup {knext + 1}
               /\ UNCHANGED kwrap
          ELSE /\ kwrap' = "panicked"
               /\ UNCHANGED <<kcache, kfin, kexec>>
    /\ UNCHANGED <<krev, kmap, kheld>>
    /\ UNCHANGED <<roundVars, placeVars, listVars>>
    /\ UNCHANGED <<poolVars, workerVars, migVars, bindVars, connVars, newVars>>

\* Exec(ctx, sql) of conn.go:307: Prepare, then Step, nothing else
CacheExecKeep(sql) ==
    /\ kwrap = "leased"
    /\ krev = "middle"
    /\ knext < MaxStmts
    /\ knext' = knext + 1
    /\ kcache' = MapSet(kcache, TrimSpace(sql), knext + 1)
    /\ kexec' = kexec \cup {knext + 1}
    /\ UNCHANGED <<krev, kmap, kfin, kheld, kwrap>>
    /\ UNCHANGED <<roundVars, placeVars, listVars>>
    /\ UNCHANGED <<poolVars, workerVars, migVars, bindVars, connVars, newVars>>

\* the caller's stmt.Finalize() on a statement Prepare returned
CacheFinalize(id) ==
    /\ kwrap = "leased"
    /\ id \in kheld
    /\ kfin' = Finalized({id})
    /\ kheld' = kheld \ {id}
    /\ UNCHANGED <<krev, kmap, kcache, knext, kexec, kwrap>>
    /\ UNCHANGED <<roundVars, placeVars, listVars>>
    /\ UNCHANGED <<poolVars, workerVars, migVars, bindVars, connVars, newVars>>

\* Done() of conn.go:201: Finalize on every statement of c.stmts, then put
CacheDoneFinalize ==
    /\ kwrap = "leased"
    /\ krev = "middle"
    /\ kfin' = Finalized(MapStmts(kcache))
    /\ kwrap' = "done"
    /\ UNCHANGED <<krev, kmap, kcache, knext, kheld, kexec>>
    /\ UNCHANGED <<roundVars, placeVars, listVars>>
    /\ UNCHANGED <<poolVars, workerVars, migVars, bindVars, connVars, newVars>>

\* Done() of conn.go:32: c.put(c)
CacheDone ==
    /\ kwrap = "leased"
    /\ krev = "newest"
    /\ kwrap' = "done"
    /\ UNCHANGED <<krev, kmap, kcache, kfin, knext, kheld, kexec>>
    /\ UNCHANGED <<roundVars, placeVars, listVars>>
    /\ UNCHANGED <<poolVars, workerVars, migVars, bindVars, connVars, newVars>>

\* close() of conn.go:36: Finalize on every statement of c.stmts, then
\* c.conn.Close()
CacheClose ==
    /\ kwrap = "leased"
    /\ krev = "newest"
    /\ kfin' = Finalized(MapStmts(kcache))
    /\ kwrap' = "closed"
    /\ UNCHANGED <<krev, kmap, kcache, knext, kheld, kexec>>
    /\ UNCHANGED <<roundVars, placeVars, listVars>>
    /\ UNCHANGED <<poolVars, workerVars, migVars, bindVars, connVars, newVars>>

CacheNext ==
    \/ \E sqls \in UNION {[1..n -> SqlTexts] : n \in 1..2} : CacheWarmup(sqls)
    \/ \E sql \in SqlTexts : CachePrepare(sql)
    \/ \E sql \in SqlTexts : CacheExec(sql)
    \/ \E sql \in SqlTexts : CacheExecKeep(sql)
    \/ \E id \in StmtIds : CacheFinalize(id)
    \/ CacheDoneFinalize
    \/ CacheDone
    \/ CacheClose

\* Database.Conn builds the wrapper: with stmts: make(map) in part_001,
\* without a stmts field, hence the nil map, in database.go
InitCache ==
    /\ PoolInit /\ WorkerIdle /\ MigIdle /\ BindIdle /\ ConnIdle /\ NewIdle
    /\ rtv = NoValue /\ rtcol = NoValue /\ rtback = NoValue
    /\ pargs = <<>> /\ pout = <<>> /\ gargs = <<>> /\ gout = <<>>
    /\ listing = <<>> /\ sqlFiles = <<>> /\ lran = <<>> /\ lpc = "idle"
    /\ krev \in {"middle", "newest"}
    /\ kmap = (krev = "middle")
    /\ kcache = {} /\ knext = 0
    /\ kfin = [i \in 1..MaxStmts |-> 0] /\ kheld = {} /\ kexec = {}
    /\ kwrap = "leased"

SpecCache == InitCache /\ [][CacheNext]_vars

(* ====================== claims: the statement cache ==================== *)
\* C26: every key of the cache is whitespace-trimmed SQL text, so two texts
\* that differ only in surrounding whitespace never have two entries.
C26_KeysTrimmed ==
    /\ \A e \in kcache : e[1] = TrimSpace(e[1])
    /\ \A e, f \in kcache : TrimSpace(e[1]) = TrimSpace(f[1]) => e = f

\* C27: the statement of an Exec call that returned has been finalized and
\* the cache holds no entry for it.
C27_ExecDoesNotCache ==
    \A id \in kexec : kfin[id] >= 1 /\ id \notin MapStmts(kcache)

\* C28: no statement is finalized more than once, and the cache never
\* holds a finalized statement.
C28_FinalizedOnce ==
    /\ \A id \in StmtIds : kfin[id] <= 1
    /\ \A id \in MapStmts(kcache) : kfin[id] = 0

(* ========================= claims: the pool ============================ *)
\* the caller's Conn() has taken a connection and has not yet put it back
Holds(c) == pc[c] \in {"taken", "held"}

\* C1: for any interleaving of Conn() and Done() calls at most PoolSize
\* connections are leased at the same time, and no connection is held by
\* two callers at once (nor is a held connection still in the free set).
C1_AtMostNLeased ==
    /\ Cardinality({c \in Clients : Holds(c)}) <= PoolSize
    /\ \A c1, c2 \in Clients :
          (c1 # c2 /\ Holds(c1) /\ Holds(c2)) => conn[c1] # conn[c2]
    /\ \A c \in Clients : Holds(c) => conn[c] \notin free

\* every connection is leased while another caller waits in Take
C1_Witness ==
    /\ Cardinality({c \in Clients : Holds(c)}) = PoolSize
    /\ \E c \in Clients : pc[c] = "take" /\ ctx[c] = "live"
    /\ ~closed

\* C2: at every instant the counter remaining stays within 0..PoolSize, so
\* the outstanding-lease count PoolSize - remaining is in 0..PoolSize.
C2_RemainingInRange == remaining \in 0..PoolSize

\* C8: a Conn(ctx) call whose context is cancelled (before or while it
\* waits) can always return, and when it returns it returns an error,
\* leases nothing and leaves the free set and remaining as they were.
C8_CancelledConnFails ==
    /\ [](\A c \in Clients :
            (pc[c] = "take" /\ ctx[c] = "cancelled") => ENABLED ConnErr(c))
    /\ [][\A c \in Clients :
            (pc[c] = "take" /\ ctx[c] = "cancelled" /\ pc'[c] # "take") =>
                /\ pc'[c] = "idle"
                /\ ret'[c] = "err"
                /\ free' = free
                /\ remaining' = remaining]_vars

\* a cancelled call has returned its error while connections were free and
\* the pool was open
C8_Witness ==
    \E c \in Clients :
        /\ pc[c] = "idle" /\ ret[c] = "err" /\ ctx[c] = "cancelled"
        /\ ~closed /\ free # {}

\* no caller is inside Conn() or Done()
Quiescent == \A c \in Clients : pc[c] \in {"idle", "held"}

\* C29: whenever no Conn() or Done() call is in progress, remaining equals
\* PoolSize minus the number of connections out of the pool; with every
\* connection back in the pool it equals PoolSize, which is what
\* Database.Close compares it with.
C29_RemainingCountsLeases ==
    Quiescent => remaining = PoolSize - Cardinality(Conns \ free)

\* no call is in progress, one caller holds a connection that another
\* caller leased and gave back before
C29_Witness ==
    /\ Quiescent
    /\ \E c \in Clients : pc[c] = "held"
    /\ \E c \in Clients : pc[c] = "idle" /\ ret[c] = "ok"
    /\ remaining = PoolSize - 1

\* C9: after Done() returned, on every path, the connection is back in the
\* free set: no connection is outside the free set without a caller that
\* still holds its lease.
C9_DoneReturnsConn ==
    \A k \in Conns :
        k \in free \/ \E c \in Clients : Holds(c) /\ conn[c] = k

\* C10: Done() finalizes no cached statement: a step that ends a lease
\* leaves the statements alive in the engine as they were.
C10_DoneKeepsStatements ==
    [][\A c \in Clients :
          (pc[c] = "held" /\ pc'[c] # "held") => engine' = engine]_vars

====
